---- MODULE Spec2Model ----
(***************************************************************************)
(* aart: image to ASCII art.  Model of src/lib.rs (scale_image, get_char,  *)
(* convert_image_to_ascii, run) and of the CLI driver src/main.rs.         *)
(*                                                                         *)
(* Numbers.  An f64 is modelled by an exact rational.  A scale is the      *)
(* record [nan, num] standing for num / ScaleDen (or for NaN); ScaleDen is *)
(* a power of two and every image dimension of the model is small, so each *)
(* f64 product, quotient and cast of the code is computed here to the same *)
(* value the IEEE-754 arithmetic gives on these inputs.  Characters are    *)
(* their code points (' ' = 32, '\n' = 10).                                *)
(***************************************************************************)
EXTENDS Integers, Sequences, FiniteSets, TLC

VARIABLES
    pc,           \* position of the program
    entry,        \* "main": the CLI driver runs; "lib": convert_image_to_ascii
                  \* is called directly; "char": get_char is called directly
    args,         \* what clap parsed: [scale, char_width, char_height]
    file,         \* what image_path holds: NoFile or a decodable image
    config,       \* aart::Config (NoConfig before Config::new)
    image,        \* the decoded image owned by convert_image_to_ascii
    scaled,       \* the image scale_image returned
    x, y,         \* the loop counters of convert_image_to_ascii
    ascii_image,  \* the String being built
    stdout,       \* characters written to standard output
    stderr,       \* diagnostics written to standard error
    exit_code,    \* the process' exit status: <<>> while running, then <<status>>
    log,          \* what run did, in order: "open", "convert", "print"
    pixel_p, pixel_q,   \* the two pixels get_char is applied to
    char_p, char_q      \* what get_char returned for them: <<>>, then <<character>>

vars == <<pc, entry, args, file, config, image, scaled, x, y, ascii_image,
          stdout, stderr, exit_code, log, pixel_p, pixel_q, char_p, char_q>>

----------------------------------------------------------------------------
(* Bounds of the model *)

MaxDim == 3          \* input images are at most MaxDim x MaxDim
MaxScaleNum == 8     \* library scales are 1/ScaleDen .. MaxScaleNum/ScaleDen
MaxCharDim == 3      \* library char_width, char_height in 1..MaxCharDim
MaxSeed == 2         \* number of pixel patterns per image size, minus one

ScaleDen == 2 * 2    \* scales are multiples of 1/4 (exact in f64)

----------------------------------------------------------------------------
(* Values *)

NoFile == [width |-> -1, height |-> -1, px |-> <<>>]
NoImage == [width |-> 0, height |-> 0, px |-> <<>>]
NoConfig == [scale |-> [nan |-> FALSE, num |-> 0], char_width |-> 0, char_height |-> 0]
NEWLINE == 10

Min(a, b) == IF a <= b THEN a ELSE b
Max(a, b) == IF a >= b THEN a ELSE b

\* Rgba<u8> pixels the test images are painted with.
Palette ==
    << <<0, 0, 0, 255>>, <<255, 255, 255, 255>>, <<128, 128, 128, 0>>,
       <<50, 100, 150, 255>>, <<100, 100, 100, 0>>, <<0, 100, 100, 7>> >>

Coords(w, h) == (0 .. w - 1) \X (0 .. h - 1)

\* A decoded w x h image; the seed shifts the pattern of its pixels.
TestImage(w, h, seed) ==
    [width |-> w, height |-> h,
     px |-> [c \in Coords(w, h) |->
                Palette[((c[1] + c[2] * w + seed) % Len(Palette)) + 1]]]

\* ImageBuffer::new: every channel zero.
BlankImage(w, h) ==
    [width |-> w, height |-> h, px |-> [c \in Coords(w, h) |-> <<0, 0, 0, 0>>]]

----------------------------------------------------------------------------
(* get_char, lib.rs 134-149 *)

ASCII_CHARS ==
    << 32, 46, 39, 96, 94, 34, 44, 58, 59, 73, 108, 33, 105, 62, 60, 126, 43,
       95, 45, 63, 93, 91, 125, 123, 49, 41, 40, 124, 92, 47, 116, 102, 106,
       114, 120, 110, 117, 118, 99, 122, 88, 89, 85, 74, 67, 76, 81, 48, 79,
       90, 109, 119, 113, 112, 100, 98, 107, 104, 97, 111, 42, 35, 77, 87,
       38, 56, 37, 66, 64, 36 >>

\* .iter().take(4): the alpha channel taken too.
take_all(channels) == SubSeq(channels, 1, Min(4, Len(channels)))

\* pixel.channels().iter().take(3)
take(channels) == SubSeq(channels, 1, Min(3, Len(channels)))

RECURSIVE sum_u8(_)
\* The channels summed in u8, wrapping.
sum_u8(s) == IF s = <<>> THEN 0 ELSE (Head(s) + sum_u8(Tail(s))) % 256

RECURSIVE sum_f64(_)
\* .map(|&c| c as f64).sum::<f64>(): integers up to 765, exact in f64.
sum_f64(s) == IF s = <<>> THEN 0 ELSE Head(s) + sum_f64(Tail(s))

\* The ramp read from its bright end.
rem_reversed(a, n) == n - 1 - (a % n)

\* usize::rem_euclid
rem_euclid(a, n) == a % n

\* (sum / 3.0) as usize: the cast truncates, and sum >= 0.
avg_color_as_usize(sum) == sum \div 3

get_char(pixel) ==
    ASCII_CHARS[rem_euclid(avg_color_as_usize(sum_f64(take(pixel))),
                           Len(ASCII_CHARS)) + 1]

----------------------------------------------------------------------------
(* scale_image, lib.rs 101-108 *)

\* new_width computed without the scale factor.
new_width_unscaled(width, scale) == width

\* (width as f64 * config.scale) as u32.  The cast truncates, saturates at 0
\* for a negative value and gives 0 for NaN.
new_width(width, scale) ==
    IF scale.nan \/ scale.num < 0 THEN 0
    ELSE (width * scale.num) \div ScaleDen

\* (height as f64 * config.scale * char_scale) as u32, where
\* char_scale = char_width as f64 / char_height as f64.
new_height(height, scale, char_width, char_height) ==
    IF scale.nan \/ scale.num < 0 THEN 0
    ELSE (height * scale.num * char_width) \div (ScaleDen * char_height)

\* f64::round of the non-negative num/den: halves round away from zero.
Round(num, den) == (2 * num + den) \div (2 * den)

\* image::math::utils::resize_dimensions(width, height, nwidth, nheight,
\* fill = false), which DynamicImage::resize calls: the largest size of the
\* source's aspect ratio that fits nwidth x nheight, each side at least 1.
\* A ratio over a zero side is NaN or infinite and f64::min drops it.
resize_dimensions(width, height, nwidth, nheight) ==
    LET wok == width > 0
        hok == height > 0
        useW == wok /\ (~hok \/ nwidth * height <= nheight * width)
        rnum == IF useW THEN nwidth ELSE nheight
        rden == IF useW THEN width ELSE height
    IN  IF ~wok /\ ~hok THEN <<1, 1>>
        ELSE <<Max(Round(width * rnum, rden), 1),
               Max(Round(height * rnum, rden), 1)>>

\* Nearest-neighbour: the source column (row) under the centre of output
\* column (row) out, when n source columns are resampled to nn.
nearest(out, n, nn) == Min(((2 * out + 1) * n) \div (2 * nn), n - 1)

\* DynamicImage::resize_exact(nwidth, nheight, FilterType::Nearest).
\* Nothing to sample from gives ImageBuffer::new(nwidth, nheight).
resize_exact(img, nwidth, nheight) ==
    IF img.width = 0 \/ img.height = 0 THEN BlankImage(nwidth, nheight)
    ELSE [width |-> nwidth, height |-> nheight,
          px |-> [c \in Coords(nwidth, nheight) |->
                     img.px[<<nearest(c[1], img.width, nwidth),
                              nearest(c[2], img.height, nheight)>>]]]

\* DynamicImage::resize(nwidth, nheight, FilterType::Nearest): the images a
\* build can return.  Releases that return a clone when the requested size
\* is the image's own size differ from the older ones only on an image with
\* a zero side, which the older ones replace by a blank image.
resize(img, nwidth, nheight) ==
    LET d == resize_dimensions(img.width, img.height, nwidth, nheight)
        resampled == resize_exact(img, d[1], d[2])
    IN  IF (img.width = 0 \/ img.height = 0)
           /\ nwidth = img.width /\ nheight = img.height
        THEN {img, resampled}
        ELSE {resampled}

scale_image(img, cfg) ==
    resize(img, new_width(img.width, cfg.scale),
           new_height(img.height, cfg.scale, cfg.char_width, cfg.char_height))

----------------------------------------------------------------------------
(* convert_image_to_ascii, lib.rs 185-199 *)

\* The pixel of the mirrored column.
get_pixel_mirrored(img, px, py) == img.px[<<img.width - 1 - px, py>>]

\* image.get_pixel(x, y)
get_pixel(img, px, py) == img.px[<<px, py>>]

\* The row left without its terminator.
push_nothing(s) == s

\* ascii_image.push('\n')
push_newline(s) == Append(s, NEWLINE)

\* let image = scale_image(image, config); let mut ascii_image = String::new();
ScaleImage ==
    /\ pc = "scale"
    /\ \E r \in scale_image(image, config) : scaled' = r
    /\ ascii_image' = <<>>
    /\ x' = 0
    /\ y' = 0
    /\ log' = Append(log, "convert")
    /\ pc' = "loop"
    /\ UNCHANGED <<entry, args, file, config, image, stdout, stderr, exit_code,
                   pixel_p, pixel_q, char_p, char_q>>

\* The inner loop's body: ascii_image.push(get_char(&image.get_pixel(x, y)))
PushChar ==
    /\ pc = "loop"
    /\ y < scaled.height
    /\ x < scaled.width
    /\ ascii_image' = Append(ascii_image, get_char(get_pixel(scaled, x, y)))
    /\ x' = x + 1
    /\ UNCHANGED <<pc, entry, args, file, config, image, scaled, y, stdout,
                   stderr, exit_code, log, pixel_p, pixel_q, char_p, char_q>>

\* The inner loop is over: push '\n' and go to the next row.
PushNewline ==
    /\ pc = "loop"
    /\ y < scaled.height
    /\ x = scaled.width
    /\ ascii_image' = push_newline(ascii_image)
    /\ x' = 0
    /\ y' = y + 1
    /\ UNCHANGED <<pc, entry, args, file, config, image, scaled, stdout,
                   stderr, exit_code, log, pixel_p, pixel_q, char_p, char_q>>

\* The outer loop is over: ascii_image is returned, to run or to the caller.
ConvertReturn ==
    /\ pc = "loop"
    /\ y = scaled.height
    /\ pc' = IF entry = "main" THEN "print" ELSE "returned"
    /\ UNCHANGED <<entry, args, file, config, image, scaled, x, y, ascii_image,
                   stdout, stderr, exit_code, log, pixel_p, pixel_q, char_p,
                   char_q>>

----------------------------------------------------------------------------
(* The library entered at convert_image_to_ascii *)

LibScales == {[nan |-> FALSE, num |-> n] : n \in 1 .. MaxScaleNum}

LibImages ==
    {TestImage(w, h, s) : w \in 0 .. MaxDim, h \in 0 .. MaxDim, s \in 0 .. MaxSeed}

NoArgs == NoConfig

InitLib ==
    /\ pc = "scale"
    /\ entry = "lib"
    /\ args = NoArgs
    /\ file = NoFile
    /\ config \in [scale : LibScales, char_width : 1 .. MaxCharDim,
                   char_height : 1 .. MaxCharDim]
    /\ image \in LibImages
    /\ scaled = NoImage
    /\ x = 0
    /\ y = 0
    /\ ascii_image = <<>>
    /\ stdout = <<>>
    /\ stderr = <<>>
    /\ exit_code = <<>>
    /\ log = <<>>
    /\ pixel_p = <<0, 0, 0, 0>>
    /\ pixel_q = <<0, 0, 0, 0>>
    /\ char_p = <<>>
    /\ char_q = <<>>

NextLib == ScaleImage \/ PushChar \/ PushNewline \/ ConvertReturn

SpecLib == InitLib /\ [][NextLib]_vars

----------------------------------------------------------------------------
(* run, lib.rs 240-247, and main, main.rs 39-56 *)

CharMin == 1
CharMax == 256

ClapError == "error: invalid value: not in 1..=256"
ScaleError == "error: scale must be between 0.01 and 1.0"
OpenError == "error: the image cannot be opened or decoded"

\* args.scale < 0.01 || args.scale > 1.0: every comparison with NaN is false.
scale_rejected(scale) ==
    \/ (~scale.nan /\ scale.num * 100 < ScaleDen)
    \/ (~scale.nan /\ scale.num > ScaleDen)

\* Args::parse(): value_parser!(u32).range(1..=256) on both character sizes;
\* clap reports a value out of range and exits with status 2.
MainParse ==
    /\ pc = "main"
    /\ IF /\ args.char_width \in CharMin .. CharMax
          /\ args.char_height \in CharMin .. CharMax
       THEN /\ pc' = "validate"
            /\ UNCHANGED <<stderr, exit_code>>
       ELSE /\ stderr' = Append(stderr, ClapError)
            /\ exit_code' = <<2>>
            /\ pc' = "exit"
    /\ UNCHANGED <<entry, args, file, config, image, scaled, x, y, ascii_image,
                   stdout, log, pixel_p, pixel_q, char_p, char_q>>

\* The scale check of main, then Config::new.
MainValidate ==
    /\ pc = "validate"
    /\ IF scale_rejected(args.scale)
       THEN /\ stderr' = Append(stderr, ScaleError)
            /\ exit_code' = <<1>>
            /\ pc' = "exit"
            /\ UNCHANGED config
       ELSE /\ config' = [scale |-> args.scale, char_width |-> args.char_width,
                          char_height |-> args.char_height]
            /\ pc' = "run"
            /\ UNCHANGED <<stderr, exit_code>>
    /\ UNCHANGED <<entry, args, file, image, scaled, x, y, ascii_image, stdout,
                   log, pixel_p, pixel_q, char_p, char_q>>

\* image::open with the error dropped: run goes on with an empty image.
RunOpenUnchecked ==
    /\ pc = "run"
    /\ log' = Append(log, "open")
    /\ image' = IF file = NoFile THEN NoImage ELSE file
    /\ pc' = "scale"
    /\ UNCHANGED <<entry, args, file, config, scaled, x, y, ascii_image, stdout,
                   stderr, exit_code, pixel_p, pixel_q, char_p, char_q>>

\* let image = image::open(&config.image_path)?;
RunOpen ==
    /\ pc = "run"
    /\ log' = Append(log, "open")
    /\ IF file = NoFile
       THEN /\ pc' = "run_err"
            /\ UNCHANGED image
       ELSE /\ image' = file
            /\ pc' = "scale"
    /\ UNCHANGED <<entry, args, file, config, scaled, x, y, ascii_image, stdout,
                   stderr, exit_code, pixel_p, pixel_q, char_p, char_q>>

\* println!("{}", ascii_image); Ok(())
RunPrint ==
    /\ pc = "print"
    /\ stdout' = stdout \o ascii_image \o <<NEWLINE>>
    /\ log' = Append(log, "print")
    /\ pc' = "run_ok"
    /\ UNCHANGED <<entry, args, file, config, image, scaled, x, y, ascii_image,
                   stderr, exit_code, pixel_p, pixel_q, char_p, char_q>>

\* run returned Ok(()): main ends and the process exits with status 0.
MainOk ==
    /\ pc = "run_ok"
    /\ exit_code' = <<0>>
    /\ pc' = "exit"
    /\ UNCHANGED <<entry, args, file, config, image, scaled, x, y, ascii_image,
                   stdout, stderr, log, pixel_p, pixel_q, char_p, char_q>>

\* if let Err(e) = aart::run(&config) { eprintln!(..); std::process::exit(1) }
MainErr ==
    /\ pc = "run_err"
    /\ stderr' = Append(stderr, OpenError)
    /\ exit_code' = <<1>>
    /\ pc' = "exit"
    /\ UNCHANGED <<entry, args, file, config, image, scaled, x, y, ascii_image,
                   stdout, log, pixel_p, pixel_q, char_p, char_q>>

\* The f64 values --scale is given: -1/4 .. (ScaleDen+1)/4, and NaN, which
\* f64::from_str accepts.
ArgScales ==
    {[nan |-> FALSE, num |-> n] : n \in -1 .. ScaleDen + 1}
        \cup {[nan |-> TRUE, num |-> 0]}

\* The values -x and -y are given, around both ends of 1..=256.
ArgCharDims == {CharMin - 1, CharMin, MaxCharDim, CharMax, CharMax + 1}

\* What image_path may hold: nothing decodable, or an image.
Files ==
    {NoFile} \cup
    {TestImage(w, h, s) : w \in 1 .. MaxDim, h \in 1 .. MaxDim, s \in 0 .. MaxSeed}

Init ==
    /\ pc = "main"
    /\ entry = "main"
    /\ args \in [scale : ArgScales, char_width : ArgCharDims,
                 char_height : ArgCharDims]
    /\ file \in Files
    /\ config = NoConfig
    /\ image = NoImage
    /\ scaled = NoImage
    /\ x = 0
    /\ y = 0
    /\ ascii_image = <<>>
    /\ stdout = <<>>
    /\ stderr = <<>>
    /\ exit_code = <<>>
    /\ log = <<>>
    /\ pixel_p = <<0, 0, 0, 0>>
    /\ pixel_q = <<0, 0, 0, 0>>
    /\ char_p = <<>>
    /\ char_q = <<>>

Next ==
    \/ MainParse \/ MainValidate \/ RunOpen
    \/ ScaleImage \/ PushChar \/ PushNewline \/ ConvertReturn
    \/ RunPrint \/ MainOk \/ MainErr

Spec == Init /\ [][Next]_vars

----------------------------------------------------------------------------
(* get_char applied to two pixels *)

Channels == {0, 50, 100, 128, 150, 255}
Alphas == {0, 255}
Pixels == {<<r, g, b, a>> : r \in Channels, g \in Channels, b \in Channels, a \in Alphas}

GetCharP ==
    /\ pc = "char_p"
    /\ char_p' = <<get_char(pixel_p)>>
    /\ pc' = "char_q"
    /\ UNCHANGED <<entry, args, file, config, image, scaled, x, y, ascii_image,
                   stdout, stderr, exit_code, log, pixel_p, pixel_q, char_q>>

GetCharQ ==
    /\ pc = "char_q"
    /\ char_q' = <<get_char(pixel_q)>>
    /\ pc' = "char_done"
    /\ UNCHANGED <<entry, args, file, config, image, scaled, x, y, ascii_image,
                   stdout, stderr, exit_code, log, pixel_p, pixel_q, char_p>>

InitChar ==
    /\ pc = "char_p"
    /\ entry = "char"
    /\ args = NoArgs
    /\ file = NoFile
    /\ config = NoConfig
    /\ image = NoImage
    /\ scaled = NoImage
    /\ x = 0
    /\ y = 0
    /\ ascii_image = <<>>
    /\ stdout = <<>>
    /\ stderr = <<>>
    /\ exit_code = <<>>
    /\ log = <<>>
    /\ pixel_p \in Pixels
    /\ pixel_q \in Pixels
    /\ char_p = <<>>
    /\ char_q = <<>>

NextChar == GetCharP \/ GetCharQ

SpecChar == InitChar /\ [][NextChar]_vars

----------------------------------------------------------------------------
(* Claims *)

Rgb(pixel) == <<pixel[1], pixel[2], pixel[3]>>
RgbSum(pixel) == pixel[1] + pixel[2] + pixel[3]
\* The position in the ramp, from 0, of a character of the ramp.
IndexOf(c) == (CHOOSE i \in 1 .. Len(ASCII_CHARS) : ASCII_CHARS[i] = c) - 1
CharsDone == pc = "char_done"
Converted == pc \in {"returned", "print", "run_ok"}
AfterScale == pc \in {"loop", "returned", "print", "run_ok"}
\* Position, from 1, of pixel (cx, cy) in the text of a w-wide image.
TextPos(cx, cy, w) == cy * (w + 1) + cx + 1

\* C1: get_char returns the ramp character at index floor((c0+c1+c2)/3) mod 70,
\* the sum not wrapping at 8 bits: black gives ' ', white 'L' (index 45), grey
\* 128 'a' (index 58), and pixels of equal mean get equal characters.
C1_GetCharIndex ==
    CharsDone =>
        /\ char_p = <<ASCII_CHARS[((RgbSum(pixel_p) \div 3) % 70) + 1]>>
        /\ char_q = <<ASCII_CHARS[((RgbSum(pixel_q) \div 3) % 70) + 1]>>
        /\ (Rgb(pixel_p) = <<0, 0, 0>> => char_p = <<32>> /\ IndexOf(32) = 0)
        /\ (Rgb(pixel_p) = <<255, 255, 255>> => char_p = <<76>> /\ IndexOf(76) = 45)
        /\ (Rgb(pixel_p) = <<128, 128, 128>> => char_p = <<97>> /\ IndexOf(97) = 58)
        /\ (RgbSum(pixel_p) = RgbSum(pixel_q) => char_p = char_q)

C1_Witness ==
    /\ CharsDone
    /\ Rgb(pixel_p) = <<50, 100, 150>>
    /\ Rgb(pixel_q) = <<100, 100, 100>>
    /\ char_p = char_q
    /\ char_p = <<116>>

\* C2: the returned string has exactly h * (w + 1) characters: each row, the
\* last one too, is followed by one '\n' and no other '\n' appears.
C2_OutputLength ==
    Converted =>
        /\ Len(ascii_image) = scaled.height * (scaled.width + 1)
        /\ \A i \in 1 .. Len(ascii_image) :
              (ascii_image[i] = NEWLINE) <=> (i % (scaled.width + 1) = 0)

C2_Witness ==
    /\ pc = "returned"
    /\ scaled.width >= 2
    /\ scaled.height >= 2
    /\ Len(ascii_image) = scaled.height * (scaled.width + 1)
    /\ ascii_image[Len(ascii_image)] = NEWLINE

\* C3 (as claimed, read on the images a decoder can produce, W >= 1 and
\* H >= 1): scale_image returns an image of exactly
\* floor(W * scale) x floor(H * scale * char_width / char_height).
C3_ExactDimensions ==
    (AfterScale /\ image.width >= 1 /\ image.height >= 1) =>
        /\ scaled.width = (image.width * config.scale.num) \div ScaleDen
        /\ scaled.height =
              (image.height * config.scale.num * config.char_width)
                  \div (ScaleDen * config.char_height)

\* C4: get_char gives the same character to two pixels that agree on their
\* first three channels, whatever their alpha channels.
C4_AlphaInvariance ==
    (CharsDone /\ Rgb(pixel_p) = Rgb(pixel_q)) => char_p = char_q

C4_Witness ==
    /\ CharsDone
    /\ Rgb(pixel_p) = Rgb(pixel_q)
    /\ pixel_p[4] # pixel_q[4]
    /\ char_p = char_q

\* C5 (as claimed, read on the images a decoder can produce, W >= 1 and
\* H >= 1): when a computed dimension is 0, or the image the loop walks has
\* width 0 or height 0, the conversion returns the empty string.
C5_ZeroAreaEmpty ==
    (/\ Converted
     /\ image.width >= 1
     /\ image.height >= 1
     /\ \/ (image.width * config.scale.num) \div ScaleDen = 0
        \/ (image.height * config.scale.num * config.char_width)
               \div (ScaleDen * config.char_height) = 0
        \/ scaled.width = 0
        \/ scaled.height = 0)
    => ascii_image = <<>>

ScaleInRange(scale) ==
    ~scale.nan /\ scale.num * 100 >= ScaleDen /\ scale.num <= ScaleDen

\* C7 (as claimed): the driver invokes run only with 0.01 <= scale <= 1.0 and
\* both character sizes in 1..256; for any other scale it writes a diagnostic
\* to the error stream and exits non-zero without opening the image or
\* writing to standard output.
C7_DriverValidates ==
    /\ (pc \in {"run", "run_err", "scale", "loop", "print", "run_ok"} \/ log # <<>>)
          => /\ ScaleInRange(args.scale)
             /\ args.char_width \in 1 .. 256
             /\ args.char_height \in 1 .. 256
    /\ (pc = "exit" /\ ~ScaleInRange(args.scale))
          => /\ stderr # <<>>
             /\ exit_code # <<0>>
             /\ log = <<>>
             /\ stdout = <<>>

\* C8: when the image cannot be opened run returns the error at once (one
\* open, no conversion, nothing on standard output) and the driver reports it
\* and exits non-zero; when it opens, run does open, convert, print once each
\* in that order and returns Ok.
C8_RunOutcome ==
    /\ (log # <<>> /\ file = NoFile)
          => /\ log = <<"open">>
             /\ stdout = <<>>
             /\ pc \in {"run_err", "exit"}
             /\ (pc = "exit" => stderr = <<OpenError>> /\ exit_code = <<1>>)
    /\ (log # <<>> /\ file # NoFile)
          => /\ log = SubSeq(<<"open", "convert", "print">>, 1, Len(log))
             /\ stderr = <<>>
             /\ (stdout # <<>> => log = <<"open", "convert", "print">>)
             /\ (pc \in {"run_ok", "exit"}
                    => /\ log = <<"open", "convert", "print">>
                       /\ stdout = ascii_image \o <<NEWLINE>>)
             /\ (pc = "exit" => exit_code = <<0>>)

C8_Witness ==
    /\ pc = "exit"
    /\ file = NoFile
    /\ log = <<"open">>
    /\ stdout = <<>>
    /\ stderr = <<OpenError>>
    /\ exit_code = <<1>>

\* C9: with char_width = char_height and an integer scale k >= 1, an image of
\* W >= 1 by H >= 1 is scaled to exactly k * W by k * H.
C9_IntegerScale ==
    (/\ AfterScale
     /\ image.width >= 1
     /\ image.height >= 1
     /\ config.char_width = config.char_height
     /\ config.scale.num >= ScaleDen
     /\ config.scale.num % ScaleDen = 0)
    => /\ scaled.width = (config.scale.num \div ScaleDen) * image.width
       /\ scaled.height = (config.scale.num \div ScaleDen) * image.height

C9_Witness ==
    /\ pc = "returned"
    /\ image.width = 3
    /\ image.height = 2
    /\ config.char_width = config.char_height
    /\ config.scale.num = 2 * ScaleDen
    /\ scaled.width = 6
    /\ scaled.height = 4

\* C10: the text is row-major and one-to-one with the resized image: the
\* character at (0-based) position y * (w + 1) + x is get_char(pixel(x, y)).
C10_RowMajor ==
    Converted =>
        \A cx \in 0 .. scaled.width - 1, cy \in 0 .. scaled.height - 1 :
            ascii_image[TextPos(cx, cy, scaled.width)]
                = get_char(scaled.px[<<cx, cy>>])

C10_Witness ==
    /\ pc = "returned"
    /\ scaled.width >= 2
    /\ scaled.height >= 2
    /\ get_char(scaled.px[<<0, 0>>]) # get_char(scaled.px[<<1, 0>>])
    /\ get_char(scaled.px[<<0, 0>>]) # get_char(scaled.px[<<0, 1>>])
    /\ get_char(scaled.px[<<1, 0>>]) # get_char(scaled.px[<<0, 1>>])
    /\ ascii_image[2] = get_char(scaled.px[<<1, 0>>])
    /\ ascii_image[scaled.width + 2] = get_char(scaled.px[<<0, 1>>])

====
